---- MODULE Spec2Model ----
(***************************************************************************)
(* Model of the monitor-calibration module:                                *)
(*   - the fake ultrasonic sensor (README.md, calibrationFakeSensor):      *)
(*     Readings and rayIntersectsMonitor, specification Spec;              *)
(*   - calibration-helpers/visualization.go: GenerateVisualizationConfig,  *)
(*     specification SpecViz.                                              *)
(*                                                                         *)
(* Numbers.  The sensor's float64 values are fixed-point integers with     *)
(* three decimals (the integer k stands for k/1000), every multiplication  *)
(* and division truncating toward zero.  The frame construction of         *)
(* GenerateVisualizationConfig is modelled in exact real arithmetic: a     *)
(* vector is an integer vector v together with den2, and stands for        *)
(* v / sqrt(den2); IEEE non-finite values (NaN, +Inf, -Inf) are explicit.  *)
(***************************************************************************)
EXTENDS Integers, Sequences, FiniteSets, TLC

VARIABLES monitor, pose, last, prev, result, config

vars == <<monitor, pose, last, prev, result, config>>

(***************************************************************************)
(* Bounds of the model.                                                    *)
(***************************************************************************)
\* sensor positions lie on a grid of 2*MaxStep+1 columns around the monitor
MaxStep == 1
\* plane coefficients and reference-point coordinates range over -MaxCoord..MaxCoord
MaxCoord == 1

(***************************************************************************)
(* Fixed-point arithmetic (float64 of the sensor).                         *)
(***************************************************************************)
Abs(x) == IF x < 0 THEN -x ELSE x

\* quotient truncated toward zero, b # 0
TDiv(a, b) ==
    IF (a >= 0) = (b > 0) THEN Abs(a) \div Abs(b) ELSE -(Abs(a) \div Abs(b))

\* the fixed-point value of the integer n
F(n) == n * 1000

FMul(a, b) == TDiv(a * b, 1000)

FDiv(a, b) == TDiv(a * 1000, b)

RECURSIVE SqrtIter(_, _)
SqrtIter(n, x) ==
    LET y == (x + n \div x) \div 2
    IN  IF y >= x THEN x ELSE SqrtIter(n, y)

\* floor of the square root of n >= 0
ISqrt(n) == IF n = 0 THEN 0 ELSE SqrtIter(n, n)

\* math.Sqrt
FSqrt(x) == ISqrt(x * 1000)

\* math.Sin at the arguments X+Z the model's sensor positions produce
\* (radians, three decimals, truncated)
SinTable ==
    (F(50) :> -262) @@ (F(150) :> -714) @@ (F(250) :> -970) @@ (F(350) :> -958)
    @@ (F(450) :> -683) @@ (F(550) :> -219) @@ (F(650) :> 304) @@ (F(750) :> 745)
    @@ (F(850) :> 980) @@ (F(950) :> 945) @@ (F(1050) :> 650) @@ (F(1150) :> 176)

Sin(a) == SinTable[a]

(***************************************************************************)
(* r3.Vector, fixed-point.                                                 *)
(***************************************************************************)
Vec(x, y, z) == [X |-> x, Y |-> y, Z |-> z]

Add(a, b) == Vec(a.X + b.X, a.Y + b.Y, a.Z + b.Z)

Sub(a, b) == Vec(a.X - b.X, a.Y - b.Y, a.Z - b.Z)

Mul(a, m) == Vec(FMul(a.X, m), FMul(a.Y, m), FMul(a.Z, m))

Dot(a, b) == TDiv(a.X * b.X + a.Y * b.Y + a.Z * b.Z, 1000)

Cross(a, b) ==
    Vec(TDiv(a.Y * b.Z - a.Z * b.Y, 1000),
        TDiv(a.Z * b.X - a.X * b.Z, 1000),
        TDiv(a.X * b.Y - a.Y * b.X, 1000))

Norm2(a) == Dot(a, a)

\* r3.Vector.Normalize: the zero vector stays the zero vector
Normalize(a) ==
    LET n2 == Norm2(a)
    IN  IF n2 = 0 THEN Vec(0, 0, 0) ELSE Mul(a, FDiv(F(1), FSqrt(n2)))

(***************************************************************************)
(* NewFakeSensor: the virtual monitor.                                     *)
(***************************************************************************)
\* cos and sin of 15 and 10 degrees, three decimals
Cos15 == 966
Sin15 == 259
Cos10 == 985
Sin10 == 174

monitorNormalInit ==
    LET n0 == Vec(0, F(1), 0)
        n1 == Vec(n0.X,
                  FMul(n0.Y, Cos15) - FMul(n0.Z, Sin15),
                  FMul(n0.Y, Sin15) + FMul(n0.Z, Cos15))
    IN  Vec(FMul(n1.X, Cos10) + FMul(n1.Z, Sin10),
            n1.Y,
            FMul(-n1.X, Sin10) + FMul(n1.Z, Cos10))

NewFakeSensor ==
    [monitorCenter   |-> Vec(F(250), F(-400), F(200)),
     monitorNormal   |-> monitorNormalInit,
     monitorWidth    |-> F(500),
     monitorHeight   |-> F(300),
     monitorUpVector |-> Vec(0, 0, F(1))]

(***************************************************************************)
(* rayIntersectsMonitor.                                                   *)
(***************************************************************************)
\* the parallel threshold 0.001 in fixed point
ParallelEps == 1

\* rayDir.Dot(s.monitorNormal), rayDir normalized
Denom(rayDir) == Dot(Normalize(rayDir), monitor.monitorNormal)

IsParallel(denom) == Abs(denom) < ParallelEps

\* t = centerToOrigin . normal / denom
RayT(rayOrigin, rayDir) ==
    FDiv(Dot(Sub(monitor.monitorCenter, rayOrigin), monitor.monitorNormal),
         Denom(rayDir))

rightVector == Normalize(Cross(monitor.monitorUpVector, monitor.monitorNormal))

upVector == Normalize(Cross(monitor.monitorNormal, rightVector))

toIntersection(rayOrigin, rayDir) ==
    LET intersectionPoint ==
            Add(rayOrigin, Mul(Normalize(rayDir), RayT(rayOrigin, rayDir)))
    IN  Sub(intersectionPoint, monitor.monitorCenter)

\* in-plane coordinates of the intersection point
CoordU(rayOrigin, rayDir) == Dot(toIntersection(rayOrigin, rayDir), rightVector)

CoordV(rayOrigin, rayDir) == Dot(toIntersection(rayOrigin, rayDir), upVector)

WithinBoundsNoV(u, v) == Abs(u) <= TDiv(monitor.monitorWidth, 2)

WithinBounds(u, v) ==
    /\ Abs(u) <= TDiv(monitor.monitorWidth, 2)
    /\ Abs(v) <= TDiv(monitor.monitorHeight, 2)

Miss == [dist |-> 0, hit |-> FALSE]

ParallelHit == [dist |-> 0, hit |-> TRUE]

ParallelResult == Miss

rayIntersectsMonitor(rayOrigin, rayDir) ==
    IF IsParallel(Denom(rayDir)) THEN ParallelResult
    ELSE IF RayT(rayOrigin, rayDir) < 0 THEN Miss
    ELSE IF WithinBounds(CoordU(rayOrigin, rayDir), CoordV(rayOrigin, rayDir))
         THEN [dist |-> RayT(rayOrigin, rayDir), hit |-> TRUE]
    ELSE Miss

(***************************************************************************)
(* Readings.                                                               *)
(***************************************************************************)
\* distanceMM on a miss, README.md line 338
MaxRangeMM == 400
\* amplitude of the noise term, README.md line 331
NoiseAmplitude == 2
\* distanceMeters := distanceMM / 1000.0, README.md line 344
MMPerMeter == 1000

NoiseDir(sensorPos) ==
    FMul(Sin(sensorPos.X + sensorPos.Z), F(NoiseAmplitude)) + pose.dir.X

Noise(sensorPos) == FMul(Sin(sensorPos.X + sensorPos.Z), F(NoiseAmplitude))

\* A decimal: m * 10^e.  A fixed-point k is Dec(k, -3).
Dec(m, e) == [m |-> m, e |-> e]

RECURSIVE Pow10(_)
Pow10(k) == IF k = 0 THEN 1 ELSE 10 * Pow10(k - 1)

\* equality of the values of two decimals
DecEq(a, b) ==
    LET lo == IF a.e < b.e THEN a.e ELSE b.e
    IN  a.m * Pow10(a.e - lo) = b.m * Pow10(b.e - lo)

\* the exponent k of the power of ten n = 10^k
RECURSIVE Log10(_)
Log10(n) == IF n = 1 THEN 0 ELSE 1 + Log10(n \div 10)

\* division of a decimal by the power of ten n
DecDiv(a, n) == Dec(a.m, a.e - Log10(n))

\* product of a decimal and the power of ten n
DecMul(a, n) == Dec(a.m, a.e + Log10(n))

\* the returned "distance" value for a millimeter distance
ToReturned(distanceMM) == DecDiv(Dec(distanceMM, -3), MMPerMeter)

NoReading == [status |-> "none"]

PoseError == [status |-> "error"]

ReadingOf(sensorPos, sensorDirWorld) ==
    LET r == rayIntersectsMonitor(sensorPos, sensorDirWorld)
        distanceMM == IF r.hit THEN r.dist + Noise(sensorPos) ELSE F(MaxRangeMM)
    IN  [status     |-> "ok",
         pos        |-> sensorPos,
         dir        |-> sensorDirWorld,
         hit        |-> r.hit,
         t          |-> r.dist,
         distanceMM |-> distanceMM,
         distance   |-> ToReturned(distanceMM)]

(***************************************************************************)
(* Sensor poses the frame system can report.                               *)
(***************************************************************************)
\* sensor positions: a grid in front of the monitor, 100 mm between columns,
\* the monitor's centre, and a point behind the monitor
Origins ==
    {Vec(F(250 + 100 * i), 0, F(z)) : i \in -MaxStep..MaxStep, z \in {200, 400}}
    \cup {Vec(F(250), F(-400), F(200)), Vec(F(250), F(-800), F(200))}

\* unit orientation vectors: toward the monitor, away from it, oblique,
\* and two perpendicular to the monitor normal
Dirs ==
    {Vec(0, F(-1), 0), Vec(0, F(1), 0), Vec(600, -800, 0),
     Vec(-999, 46, 0), Vec(0, -255, 966)}

\* no call of GenerateVisualizationConfig has returned yet
Pending == [status |-> "pending"]

\* the nil map returned after logging the error
NilConfig == [status |-> "nil"]

\* the CalibrationResult of the sensor specification, where it plays no part
DefaultResult ==
    [Plane |-> [A |-> 0, B |-> 1, C |-> 0, D |-> 0],
     LeftX |-> 1, RightX |-> 0, BottomZ |-> 0, TopZ |-> 1,
     XPoint1 |-> <<0, 0, 0>>, XPoint2 |-> <<1, 0, 0>>]

Init ==
    /\ monitor = NewFakeSensor
    /\ pose \in [pos : Origins, dir : Dirs]
    /\ last = NoReading
    /\ prev = NoReading
    /\ result = DefaultResult
    /\ config = Pending

\* the arm or the gantry moves: the frame system reports another pose
MoveSensor ==
    /\ \E p \in Origins, d \in Dirs : pose' = [pos |-> p, dir |-> d]
    /\ UNCHANGED <<monitor, last, prev, result, config>>

\* Readings when fs.GetPose succeeds
Readings ==
    /\ last' = ReadingOf(pose.pos, pose.dir)
    /\ prev' = last
    /\ UNCHANGED <<monitor, pose, result, config>>

\* Readings when fs.GetPose fails
ReadingsPoseError ==
    /\ last' = PoseError
    /\ prev' = last
    /\ UNCHANGED <<monitor, pose, result, config>>

Next == MoveSensor \/ Readings \/ ReadingsPoseError

Spec == Init /\ [][Next]_vars

(***************************************************************************)
(* Exact arithmetic of GenerateVisualizationConfig.                        *)
(***************************************************************************)
IDot(a, b) == a[1] * b[1] + a[2] * b[2] + a[3] * b[3]

ICross(a, b) ==
    <<a[2] * b[3] - a[3] * b[2], a[3] * b[1] - a[1] * b[3], a[1] * b[2] - a[2] * b[1]>>

ISub(a, b) == <<a[1] - b[1], a[2] - b[2], a[3] - b[3]>>

Zero3 == <<0, 0, 0>>

\* the real vector v / sqrt(den2)
RVec(v, den2) == [nan |-> FALSE, v |-> v, den2 |-> den2]

\* a vector whose components are NaN
NaNVec == [nan |-> TRUE, v |-> Zero3, den2 |-> 1]

\* r3.Vector.Sub of two vectors with integer components
SubR(a, b) == IF a.nan \/ b.nan THEN NaNVec ELSE RVec(ISub(a.v, b.v), 1)

CrossR(a, b) ==
    IF a.nan \/ b.nan THEN NaNVec ELSE RVec(ICross(a.v, b.v), a.den2 * b.den2)

\* r3.Vector.Normalize: Norm2 = 0 gives the zero vector, NaN stays NaN
NormalizeR(a) ==
    IF a.nan THEN NaNVec
    ELSE IF IDot(a.v, a.v) = 0 THEN RVec(Zero3, 1)
    ELSE RVec(a.v, IDot(a.v, a.v))

\* extended rationals: float64 values n/d (d > 0), +Inf, -Inf (s = 1, -1), NaN
Q(n, d) == [k |-> "fin", n |-> n, d |-> d]

QInf(s) == [k |-> "inf", s |-> s]

QNaN == [k |-> "nan"]

QSub(a, b) == Q(a.n * b.d - b.n * a.d, a.d * b.d)

QAdd(a, b) == Q(a.n * b.d + b.n * a.d, a.d * b.d)

\* the product of the integer i and the rational a
QMulInt(i, a) == Q(i * a.n, a.d)

QEq(a, b) == a.k = "fin" /\ b.k = "fin" /\ a.n * b.d = b.n * a.d

\* float64 division of the rational a by the integer b
QDivInt(a, b) ==
    IF b = 0 THEN (IF a.n = 0 THEN QNaN ELSE QInf(IF a.n > 0 THEN 1 ELSE -1))
    ELSE IF b > 0 THEN Q(a.n, a.d * b)
    ELSE Q(-a.n, a.d * (-b))

(***************************************************************************)
(* GenerateVisualizationConfig.                                            *)
(***************************************************************************)
centerX(r) == Q(r.LeftX + r.RightX, 2)

centerZ(r) == Q(r.BottomZ + r.TopZ, 2)

centerYNoC(r) ==
    QDivInt(QSub(Q(r.Plane.D, 1), QMulInt(r.Plane.A, centerX(r))), r.Plane.B)

\* (D - A*centerX - C*centerZ) / B
centerY(r) ==
    QDivInt(QSub(QSub(Q(r.Plane.D, 1), QMulInt(r.Plane.A, centerX(r))),
                 QMulInt(r.Plane.C, centerZ(r))),
            r.Plane.B)

PlaneNormal(r) == <<r.Plane.A, r.Plane.B, r.Plane.C>>

\* the normal divided by normalLength = sqrt(A*A + B*B + C*C); 0/0 is NaN
localY(r) ==
    LET n2 == IDot(PlaneNormal(r), PlaneNormal(r))
    IN  IF n2 = 0 THEN NaNVec ELSE RVec(PlaneNormal(r), n2)

xDir(r) == NormalizeR(SubR(RVec(r.XPoint2, 1), RVec(r.XPoint1, 1)))

localZSwapped(xd, ly) == NormalizeR(CrossR(ly, xd))

localZ(xd, ly) == NormalizeR(CrossR(xd, ly))

localXSwapped(ly, lz) == NormalizeR(CrossR(lz, ly))

localX(ly, lz) == NormalizeR(CrossR(ly, lz))

\* the nine entries handed to spatialmath.NewRotationMatrix, row-major
MatrixEntries(lx, ly, lz) ==
    [i \in 1..9 |->
        LET row == IF i <= 3 THEN lx ELSE IF i <= 6 THEN ly ELSE lz
        IN  [nan |-> row.nan, n |-> row.v[((i - 1) % 3) + 1], den2 |-> row.den2]]

\* spatialmath.NewRotationMatrix fails on a slice that does not hold 9 entries;
\* the quaternion of the config is a function of the matrix it accepts, and the
\* config records the matrix rows as its orientation
NewRotationMatrixErr(m) == Len(m) # 9

GenerateConfig(r) ==
    LET ly == localY(r)
        lz == localZ(xDir(r), ly)
        lx == localX(ly, lz)
    IN  IF NewRotationMatrixErr(MatrixEntries(lx, ly, lz)) THEN NilConfig
        ELSE [status      |-> "ok",
              translation |-> [x |-> centerX(r), y |-> centerY(r), z |-> centerZ(r)],
              orientation |-> [localX |-> lx, localY |-> ly, localZ |-> lz],
              geometry    |-> [x |-> r.LeftX - r.RightX, y |-> 1,
                               z |-> r.TopZ - r.BottomZ]]

Coords == -MaxCoord..MaxCoord

Extents ==
    {[LeftX |-> 2, RightX |-> 0, BottomZ |-> 0, TopZ |-> 1],
     [LeftX |-> 1, RightX |-> -2, BottomZ |-> -1, TopZ |-> 2]}

Results ==
    {[Plane |-> [A |-> a, B |-> b, C |-> c, D |-> d],
      LeftX |-> e.LeftX, RightX |-> e.RightX, BottomZ |-> e.BottomZ, TopZ |-> e.TopZ,
      XPoint1 |-> p1, XPoint2 |-> <<x, y, z>>] :
        a \in Coords, b \in Coords, c \in Coords, d \in {0, 1}, e \in Extents,
        p1 \in {<<0, 0, 0>>, <<1, 0, 1>>}, x \in Coords, y \in Coords, z \in Coords}

InitViz ==
    /\ monitor = NewFakeSensor
    /\ pose = [pos |-> Vec(F(250), 0, F(200)), dir |-> Vec(0, F(-1), 0)]
    /\ last = NoReading
    /\ prev = NoReading
    /\ result \in Results
    /\ config = Pending

GenerateVisualizationConfig ==
    /\ config = Pending
    /\ config' = GenerateConfig(result)
    /\ UNCHANGED <<monitor, pose, last, prev, result>>

NextViz == GenerateVisualizationConfig

SpecViz == InitViz /\ [][NextViz]_vars

(***************************************************************************)
(* Properties of the fake sensor (specification Spec).                     *)
(***************************************************************************)
\* the last Readings call returned a reading
ReadOk == last.status = "ok"

\* the ray of the last reading is parallel to the monitor: |direction . normal| < epsilon
LastParallel ==
    Abs(Dot(Normalize(last.dir), monitor.monitorNormal)) < ParallelEps

\* a decimal with exponent >= -3 as a fixed-point number
Fixed(a) == a.m * Pow10(a.e + 3)

\* C1: for a ray not parallel to the surface, rayIntersectsMonitor hits exactly
\* when t = ((center - origin) . normal) / (direction . normal) is >= 0 and the
\* in-plane coordinates of the intersection point satisfy |u| <= width/2 and
\* |v| <= height/2; the distance of a hit is t, and a miss has distance 0.
C1_HitIffInRectangle ==
    (ReadOk /\ ~LastParallel) =>
        LET n      == monitor.monitorNormal
            d      == Normalize(last.dir)
            t      == FDiv(Dot(Sub(monitor.monitorCenter, last.pos), n), Dot(d, n))
            right  == Normalize(Cross(monitor.monitorUpVector, n))
            trueUp == Normalize(Cross(n, right))
            rel    == Sub(Add(last.pos, Mul(d, t)), monitor.monitorCenter)
            inside == /\ t >= 0
                      /\ 2 * Abs(Dot(rel, right)) <= monitor.monitorWidth
                      /\ 2 * Abs(Dot(rel, trueUp)) <= monitor.monitorHeight
        IN  /\ last.hit <=> inside
            /\ last.hit => last.t = t
            /\ ~last.hit => last.t = 0

\* a hit away from the monitor's centre, at a positive distance
C1_Witness ==
    /\ ReadOk
    /\ ~LastParallel
    /\ last.hit
    /\ last.t > 0
    /\ last.pos.X # monitor.monitorCenter.X

\* C2: a ray parallel to the surface (|direction . normal| below the threshold)
\* never hits, whatever the ray origin, an origin in the surface plane included.
C2_ParallelNeverHits == (ReadOk /\ LastParallel) => ~last.hit

\* a parallel ray cast from the monitor's centre, a point of the surface plane
C2_Witness ==
    /\ ReadOk
    /\ LastParallel
    /\ last.pos = monitor.monitorCenter
    /\ ~last.hit

\* C3: on a miss Readings returns 400.0 (centimeters) as the distance.
C3_MissReturns400 ==
    (ReadOk /\ ~last.hit) => DecEq(last.distance, Dec(MaxRangeMM, 0))

\* C4: on a hit the returned distance is the noise-perturbed millimeter distance
\* divided by 10 (centimeters).
C4_HitReturnsCentimeters ==
    (ReadOk /\ last.hit) =>
        DecEq(last.distance, DecDiv(Dec(last.distanceMM, -3), 10))

\* C5: on a hit the returned millimeter distance differs from the intersection
\* distance t by at most 2, the difference (the noise) is the same for two
\* readings taken at the same sensor position, and two readings taken at the
\* same pose return the same distance.
C5_NoiseBoundedFunctionOfOrigin ==
    /\ (ReadOk /\ last.hit) =>
            Abs(Fixed(DecMul(last.distance, 1000)) - last.t) <= F(2)
    /\ (ReadOk /\ last.hit /\ prev.status = "ok" /\ prev.hit /\ prev.pos = last.pos) =>
            Fixed(DecMul(prev.distance, 1000)) - prev.t
                = Fixed(DecMul(last.distance, 1000)) - last.t
    /\ (ReadOk /\ prev.status = "ok" /\ prev.pos = last.pos /\ prev.dir = last.dir) =>
            DecEq(prev.distance, last.distance)

\* two hits from the same position along different directions
C5_Witness ==
    /\ ReadOk
    /\ prev.status = "ok"
    /\ last.hit
    /\ prev.hit
    /\ prev.pos = last.pos
    /\ prev.dir # last.dir
    /\ prev.t # last.t

(***************************************************************************)
(* Properties of GenerateVisualizationConfig (specification SpecViz).      *)
(***************************************************************************)
\* GenerateVisualizationConfig has returned
Computed == config.status # "pending"

\* XPoint2 - XPoint1
RefDiff == ISub(result.XPoint2, result.XPoint1)

\* the reference points coincide or their difference is parallel to the normal
RefsDegenerate == RefDiff = Zero3 \/ ICross(RefDiff, PlaneNormal(result)) = Zero3

NonDegenerate == PlaneNormal(result) # Zero3 /\ ~RefsDegenerate

\* integer vectors of the same direction and sense
SameDir(a, b) == ICross(a, b) = Zero3 /\ IDot(a, b) > 0

\* equality of two real vectors
REq(a, b) ==
    /\ ~a.nan
    /\ ~b.nan
    /\ \/ a.v = Zero3 /\ b.v = Zero3
       \/ /\ SameDir(a.v, b.v)
          /\ IDot(a.v, a.v) * b.den2 = IDot(b.v, b.v) * a.den2

\* C6: frame construction fails, producing no orientation, whenever the two
\* reference points coincide or their difference is parallel to the normal.
C6_DegenerateReferencePointsFail ==
    (Computed /\ RefsDegenerate) => config = NilConfig

\* C7: frame construction fails, producing no orientation, whenever the plane
\* normal (A, B, C) has zero magnitude.
C7_DegeneratePlaneFails ==
    (Computed /\ PlaneNormal(result) = Zero3) => config = NilConfig

\* C8: for a non-zero normal and a non-degenerate reference pair, localY lies
\* along the normal, localZ along xDir x localY, the three axes are pairwise
\* orthogonal and localX lies along localY x localZ (right-handed).
C8_OrthogonalRightHanded ==
    (Computed /\ NonDegenerate) =>
        /\ config.status = "ok"
        /\ LET lx == config.orientation.localX
               ly == config.orientation.localY
               lz == config.orientation.localZ
           IN  /\ ~lx.nan /\ ~ly.nan /\ ~lz.nan
               /\ SameDir(ly.v, PlaneNormal(result))
               /\ SameDir(lz.v, ICross(RefDiff, ly.v))
               /\ IDot(lx.v, ly.v) = 0
               /\ IDot(ly.v, lz.v) = 0
               /\ IDot(lz.v, lx.v) = 0
               /\ SameDir(lx.v, ICross(ly.v, lz.v))

\* a frame built from a reference direction that is oblique to the normal
C8_Witness ==
    /\ Computed
    /\ NonDegenerate
    /\ IDot(RefDiff, PlaneNormal(result)) # 0
    /\ config.status = "ok"

\* C9: for a non-zero normal and a non-degenerate reference pair, localX has a
\* strictly positive dot product with xDir, and equals xDir exactly when xDir
\* is perpendicular to the plane normal.
C9_LocalXFollowsXDir ==
    (Computed /\ NonDegenerate) =>
        /\ config.status = "ok"
        /\ IDot(config.orientation.localX.v, RefDiff) > 0
        /\ REq(config.orientation.localX, xDir(result))
                <=> (IDot(RefDiff, PlaneNormal(result)) = 0)

\* a reference direction perpendicular to the normal: localX is xDir
C9_Witness ==
    /\ Computed
    /\ NonDegenerate
    /\ IDot(RefDiff, PlaneNormal(result)) = 0
    /\ config.status = "ok"
    /\ REq(config.orientation.localX, xDir(result))

\* C10: the translation is the midpoint of the extents in X and Z; with B # 0
\* it lies on the plane A*x + B*y + C*z = D; with B = 0 the plane is not
\* rejected and y, the quotient by B, is not a finite number.
C10_TranslationOnPlane ==
    Computed =>
        /\ config.status = "ok"
        /\ LET t == config.translation
               P == result.Plane
           IN  /\ QEq(QMulInt(2, t.x), Q(result.LeftX + result.RightX, 1))
               /\ QEq(QMulInt(2, t.z), Q(result.BottomZ + result.TopZ, 1))
               /\ P.B # 0 =>
                    /\ t.y.k = "fin"
                    /\ QEq(QAdd(QAdd(QMulInt(P.A, t.x), QMulInt(P.B, t.y)),
                                QMulInt(P.C, t.z)),
                           Q(P.D, 1))
               /\ P.B = 0 => t.y.k # "fin"

\* a plane with A, B, C and D all non-zero and a centre off the origin
C10_Witness ==
    /\ Computed
    /\ config.status = "ok"
    /\ result.Plane.A # 0
    /\ result.Plane.B # 0
    /\ result.Plane.C # 0
    /\ result.Plane.D # 0
    /\ result.LeftX + result.RightX # 0
    /\ result.BottomZ + result.TopZ # 0

====
